---- MODULE Spec2Model ----
(***************************************************************************)
(* Model of the struct overlay of go-capnproto2 (struct.go): typed field   *)
(* accessors over a segment's bytes, bit accessors, pointer-slot accessors *)
(* and the versioned deep copy copyStruct.                                 *)
(*                                                                         *)
(* A segment is a sequence of bytes (address a is index a+1).  DataOffset, *)
(* BitOffset, Size and Address are Go uint32: they are kept as two 16-bit  *)
(* limbs so that sums wrap modulo 2^32 exactly as the Go arithmetic does.  *)
(***************************************************************************)
EXTENDS Integers, Sequences, FiniteSets, TLC

VARIABLES mem,    \* mem[s]: the bytes of segment s (one segment per message)
          cap,    \* cap[s]: the arena capacity of segment s
          last,   \* the last operation: its arguments, outcome and trace
          nops,   \* number of operations performed
          scn,    \* the shape of the two messages the behaviour started from
          pc,     \* pc[w]: position of writer w inside SetBit (race model)
          loc     \* loc[w]: the byte writer w holds between read and write

vars == <<mem, cap, last, nops, scn, pc, loc>>

-----------------------------------------------------------------------------
(* Bounds of the model *)
MaxOps == 1          \* operations per behaviour
MaxChain == 4        \* longest pointer chain built in the source message

-----------------------------------------------------------------------------
(* uint32 arithmetic (Size, DataOffset, BitOffset, Address) *)
Limb == 65536
wordSize == 8
NilSeg == 0

U(n) == [hi |-> n \div Limb, lo |-> n % Limb]

Add32(a, b) ==
  LET lo == a.lo + b.lo
  IN  [hi |-> (a.hi + b.hi + (lo \div Limb)) % Limb, lo |-> lo % Limb]

Lt32(a, b) == a.hi < b.hi \/ (a.hi = b.hi /\ a.lo < b.lo)
Gt32(a, b) == Lt32(b, a)

\* n / 8 and n % 8 of a uint32
Div8(a) == [hi |-> a.hi \div 8, lo |-> (a.hi % 8) * 8192 + (a.lo \div 8)]
Mod8(a) == a.lo % 8

\* Address.addOffset, Address.addSize, Address.element
addOffset(a, o) == Add32(a, o)
addSize(a, sz) == Add32(a, U(sz))
element(a, i, sz) == Add32(a, U(i * sz))

-----------------------------------------------------------------------------
(* Struct views *)
ObjectSize(d, p) == [DataSize |-> d, PointerCount |-> p]
Struct(s, o, d, p) == [seg |-> s, off |-> o, size |-> ObjectSize(d, p)]
NullStruct == Struct(NilSeg, 0, 0, 0)
totalSize(sz) == sz.DataSize + sz.PointerCount * wordSize

-----------------------------------------------------------------------------
(* Segment primitives.  m is the byte sequence of one segment.             *)

\* Segment.slice(base, sz) is s.data[base:base+sz]: Go panics when the
\* range is not inside the slice.
InBounds(m, addr, sz) == addr.hi = 0 /\ addr.lo + sz <= Len(m)

\* A value of w bytes is a sequence of 16-bit digits, most significant
\* first (a single digit < 256 when w = 1).
NLimbs(w) == (w + 1) \div 2
ZeroVal(w) == [i \in 1..NLimbs(w) |-> 0]

\* byte k (k = 0 is the least significant) of value v
ByteOf(v, k) ==
  LET d == v[Len(v) - (k \div 2)]
  IN  IF k % 2 = 0 THEN d % 256 ELSE d \div 256

\* binary.LittleEndian.UintN over s.slice(addr, w)
readLE(m, addr, w) ==
  IF ~InBounds(m, addr, w)
  THEN [out |-> "panic", val |-> ZeroVal(w), touched |-> {}]
  ELSE [out |-> "ok",
        val |-> [i \in 1..NLimbs(w) |->
                   LET k == 2 * (NLimbs(w) - i)
                   IN  IF w = 1 THEN m[addr.lo + 1]
                       ELSE m[addr.lo + k + 1] + 256 * m[addr.lo + k + 2]],
        touched |-> addr.lo .. (addr.lo + w - 1)]

\* binary.LittleEndian.PutUintN over s.slice(addr, w)
writeLE(m, addr, v, w) ==
  IF ~InBounds(m, addr, w)
  THEN [out |-> "panic", m |-> m]
  ELSE [out |-> "ok",
        m |-> [i \in 1..Len(m) |->
                 IF i - 1 >= addr.lo /\ i - 1 < addr.lo + w
                 THEN ByteOf(v, i - 1 - addr.lo) ELSE m[i]]]

readUint8(m, addr) == readLE(m, addr, 1)
readUint16(m, addr) == readLE(m, addr, 2)
readUint32(m, addr) == readLE(m, addr, 4)
readUint64(m, addr) == readLE(m, addr, 8)
writeUint8(m, addr, v) == writeLE(m, addr, v, 1)
writeUint16(m, addr, v) == writeLE(m, addr, v, 2)
writeUint32(m, addr, v) == writeLE(m, addr, v, 4)
writeUint64(m, addr, v) == writeLE(m, addr, v, 8)

-----------------------------------------------------------------------------
(* Typed field accessors *)

\* Struct.dataAddress: Size(off)+sz is a uint32 sum
dataAddress(p, off, sz) ==
  IF p.seg = NilSeg \/ Gt32(Add32(off, U(sz)), U(p.size.DataSize))
  THEN [addr |-> U(0), ok |-> FALSE]
  ELSE [addr |-> addOffset(U(p.off), off), ok |-> TRUE]

RdZero(w) == [out |-> "ok", val |-> ZeroVal(w), touched |-> {}]

Uint8(m, p, off) ==
  LET a == dataAddress(p, off, 1)
  IN  IF ~a.ok THEN RdZero(1) ELSE readUint8(m[p.seg], a.addr)

Uint16(m, p, off) ==
  LET a == dataAddress(p, off, 2)
  IN  IF ~a.ok THEN RdZero(2) ELSE readUint16(m[p.seg], a.addr)

Uint32(m, p, off) ==
  LET a == dataAddress(p, off, 4)
  IN  IF ~a.ok THEN RdZero(4) ELSE readUint32(m[p.seg], a.addr)

Uint64(m, p, off) ==
  LET a == dataAddress(p, off, 8)
  IN  IF ~a.ok THEN RdZero(8) ELSE readUint64(m[p.seg], a.addr)

\* outcome of a write: "ok", "panic" with err errOutOfBounds (the explicit
\* panic of the accessor) or err "runtime" (a Go slice-bounds panic)
WrPanic(m) == [out |-> "panic", err |-> "errOutOfBounds", mem |-> m]
WrSeg(m, s, r) ==
  IF r.out = "ok" THEN [out |-> "ok", err |-> "nil", mem |-> [m EXCEPT ![s] = r.m]]
  ELSE [out |-> "panic", err |-> "runtime", mem |-> m]

SetUint8(m, p, off, v) ==
  LET a == dataAddress(p, off, 1)
  IN  IF ~a.ok THEN WrPanic(m) ELSE WrSeg(m, p.seg, writeUint8(m[p.seg], a.addr, v))

\* SetUint16 storing through the 8-bit primitive
SetUint16_narrow(m, p, off, v) ==
  LET a == dataAddress(p, off, 2)
  IN  IF ~a.ok THEN WrPanic(m) ELSE WrSeg(m, p.seg, writeUint8(m[p.seg], a.addr, v))

SetUint16(m, p, off, v) ==
  LET a == dataAddress(p, off, 2)
  IN  IF ~a.ok THEN WrPanic(m) ELSE WrSeg(m, p.seg, writeUint16(m[p.seg], a.addr, v))

SetUint32(m, p, off, v) ==
  LET a == dataAddress(p, off, 4)
  IN  IF ~a.ok THEN WrPanic(m) ELSE WrSeg(m, p.seg, writeUint32(m[p.seg], a.addr, v))

SetUint64(m, p, off, v) ==
  LET a == dataAddress(p, off, 8)
  IN  IF ~a.ok THEN WrPanic(m) ELSE WrSeg(m, p.seg, writeUint64(m[p.seg], a.addr, v))

-----------------------------------------------------------------------------
(* Bit accessors *)

\* BitOffset.offset and BitOffset.mask
bitOffset(n) == Div8(n)
bitMask(n) == 2 ^ Mod8(n)

\* b & mask != 0, b | mask, b &^ mask on a byte
HasMask(b, mask) == (b \div mask) % 2 = 1
OrMask(b, mask) == IF HasMask(b, mask) THEN b ELSE b + mask
AndNotMask(b, mask) == IF HasMask(b, mask) THEN b - mask ELSE b

\* Struct.bitInData
bitInData(p, n) == p.seg # NilSeg /\ Lt32(n, U(p.size.DataSize * 8))

\* Struct.Bit
Bit(m, p, n) ==
  IF ~bitInData(p, n) THEN [out |-> "ok", val |-> FALSE, touched |-> {}]
  ELSE LET r == readUint8(m[p.seg], addOffset(U(p.off), bitOffset(n)))
       IN  [out |-> r.out, val |-> r.out = "ok" /\ HasMask(r.val[1], bitMask(n)),
            touched |-> r.touched]

\* the modify step setting with b = mask instead of b |= mask
setBitByte_assign(b, n, v) == IF v THEN bitMask(n) ELSE AndNotMask(b, bitMask(n))

\* the modify step clearing with b & mask instead of b &^ mask
setBitByte_andMask(b, n, v) ==
  IF v THEN OrMask(b, bitMask(n))
  ELSE IF HasMask(b, bitMask(n)) THEN bitMask(n) ELSE 0

\* the modify step of Struct.SetBit
setBitByte(b, n, v) == IF v THEN OrMask(b, bitMask(n)) ELSE AndNotMask(b, bitMask(n))

\* Struct.SetBit
SetBit(m, p, n, v) ==
  IF ~bitInData(p, n) THEN WrPanic(m)
  ELSE LET addr == addOffset(U(p.off), bitOffset(n))
           r == readUint8(m[p.seg], addr)
       IN  IF r.out # "ok" THEN [out |-> "panic", err |-> "runtime", mem |-> m]
           ELSE WrSeg(m, p.seg, writeUint8(m[p.seg], addr, <<setBitByte(r.val[1], n, v)>>))

-----------------------------------------------------------------------------
(* Pointer words.  A raw pointer is a 64-bit value, stored little-endian:  *)
(* bits 0-1 the pointer type (0 = struct), bits 2-31 the signed offset in  *)
(* words from the end of the pointer word, bits 32-47 the data size in     *)
(* words, bits 48-63 the pointer count.  The all-zero word is null.        *)

DepthLimit == 3             \* the nesting limit of copyPointer
OffsetMod == 1073741824     \* 2^30: the offset field is 30 bits wide

rawStructPointer(off, sz) ==
  LET o30 == off % OffsetMod
  IN  <<sz.PointerCount, sz.DataSize \div wordSize, o30 \div 16384, (o30 % 16384) * 4>>

makePointerOffset(paddr, a) == (a \div wordSize) - (paddr \div wordSize) - 1

\* Struct.value
value(p, paddr) == rawStructPointer(makePointerOffset(paddr, p.off), p.size)

\* Struct.pointerAddress
pointerAddress(p, i) ==
  LET ptrStart == addSize(U(p.off), p.size.DataSize)
  IN  element(ptrStart, i, wordSize)

\* Segment.readPtr: decode the pointer word at addr of segment s.
\* Only null and struct pointers are decoded; any other pointer type is
\* reported as errOtherPointer.
readPtr(m, s, addr) ==
  LET r == readUint64(m[s], addr)
      w == r.val
      o30 == w[3] * 16384 + (w[4] \div 4)
      off == IF o30 >= OffsetMod \div 2 THEN o30 - OffsetMod ELSE o30
      target == addr.lo + wordSize + off * wordSize
      sz == ObjectSize(w[2] * wordSize, w[1])
  IN  IF r.out # "ok" THEN [ptr |-> NullStruct, err |-> "panic"]
      ELSE IF w = ZeroVal(8) THEN [ptr |-> NullStruct, err |-> "nil"]
      ELSE IF w[4] % 4 # 0 THEN [ptr |-> NullStruct, err |-> "errOtherPointer"]
      ELSE IF target < 0 \/ target + totalSize(sz) > Len(m[s])
           THEN [ptr |-> NullStruct, err |-> "errPointerAddress"]
      ELSE [ptr |-> Struct(s, target, sz.DataSize, sz.PointerCount), err |-> "nil"]

\* A heap h is [mem, cap, log, err]: the segments, their capacities, the
\* trace of pointer-level events and the error of the last step.
Heap(m, c) == [mem |-> m, cap |-> c, log |-> <<>>, err |-> "nil"]
Event(e, d, s, a) == [ev |-> e, depth |-> d, seg |-> s, addr |-> a]
Logged(h, e) == [h EXCEPT !.log = Append(@, e)]
Failed(h, e) == [h EXCEPT !.err = e]
\* an error raised at depth d for address a of segment s
Raise(h, e, d, s, a) == Failed(Logged(h, Event(e, d, s, a)), e)

\* Segment.writeRawPointer
writeRawPointer(h, s, addr, raw) ==
  LET r == writeUint64(h.mem[s], addr, raw)
  IN  IF r.out = "ok" THEN [h EXCEPT !.mem[s] = r.m] ELSE Failed(h, "panic")

\* alloc: bump allocation of sz zeroed bytes in segment s; it fails when
\* the arena has no room, else the new object starts at the old length
hasRoom(h, s, sz) == Len(h.mem[s]) + sz <= h.cap[s]
alloc(h, s, sz) == [h EXCEPT !.mem[s] = @ \o [i \in 1..sz |-> 0]]

\* copyContext.incDepth
incDepth(cc) == [depth |-> cc.depth + 1]

\* the element of a singleton: The({e(x) : x \in {v}}) is e with x bound to v
The(S) == CHOOSE y \in S : TRUE

RECURSIVE copyStruct(_, _, _, _), writePtr(_, _, _, _, _),
          copyPointer(_, _, _, _, _), copyPtrs(_, _, _, _, _)

\* the data-section copy without the zeroing loop
copyData_noZero(h, dst, src) ==
  LET srcLen == src.size.DataSize
      dstLen == dst.size.DataSize
      copyCount == IF srcLen < dstLen THEN srcLen ELSE dstLen
      d == h.mem[dst.seg]
  IN  [h EXCEPT !.mem[dst.seg] =
         [i \in 1..Len(d) |->
            LET k == i - 1 - dst.off
            IN  IF k < 0 \/ k >= copyCount THEN d[i]
                ELSE h.mem[src.seg][src.off + k + 1]]]

\* copyStruct, data section: copy(dstData, srcData), then zero the rest
copyData(h, dst, src) ==
  LET srcLen == src.size.DataSize
      dstLen == dst.size.DataSize
      copyCount == IF srcLen < dstLen THEN srcLen ELSE dstLen
      d == h.mem[dst.seg]
  IN  [h EXCEPT !.mem[dst.seg] =
         [i \in 1..Len(d) |->
            LET k == i - 1 - dst.off
            IN  IF k < 0 \/ k >= dstLen THEN d[i]
                ELSE IF k < copyCount THEN h.mem[src.seg][src.off + k + 1]
                ELSE 0]]

\* srcPtrSect.element(j, wordSize) and dstPtrSect.element(j, wordSize)
slotAddress(p, j) == element(addSize(U(p.off), p.size.DataSize), j, wordSize)

\* what copyStruct does with the result r of src.seg.readPtr(srcAddr):
\* return its error, or write the pointer under the context wcc
writeDecoded(cc, wcc, h, r, dst, src, j) ==
  IF r.err # "nil" THEN Raise(h, r.err, cc.depth, src.seg, slotAddress(src, j).lo)
  ELSE writePtr(wcc, h, dst.seg, slotAddress(dst, j), r.ptr)

\* the loop body passing cc instead of cc.incDepth()
copyPtrSlot_sameDepth(cc, h, dst, src, j) ==
  writeDecoded(cc, cc,
               Logged(h, Event("readPtr", cc.depth, src.seg, slotAddress(src, j).lo)),
               readPtr(h.mem, src.seg, slotAddress(src, j)), dst, src, j)

\* copyStruct, body of the first pointer loop for slot j
copyPtrSlot(cc, h, dst, src, j) ==
  writeDecoded(cc, incDepth(cc),
               Logged(h, Event("readPtr", cc.depth, src.seg, slotAddress(src, j).lo)),
               readPtr(h.mem, src.seg, slotAddress(src, j)), dst, src, j)

\* the first pointer loop going on to the next slot after an error
copyPtrs_continue(cc, h, dst, src, j) ==
  IF ~(j < src.size.PointerCount /\ j < dst.size.PointerCount) THEN h
  ELSE copyPtrs(cc, copyPtrSlot(cc, h, dst, src, j), dst, src, j + 1)

\* copyStruct, first pointer loop from slot j on
copyPtrs(cc, h, dst, src, j) ==
  IF ~(j < src.size.PointerCount /\ j < dst.size.PointerCount) THEN h
  ELSE The({IF x.err # "nil" THEN x ELSE copyPtrs(cc, x, dst, src, j + 1) :
              x \in {copyPtrSlot(cc, h, dst, src, j)}})

\* copyStruct, second pointer loop: zero the destination's extra slots
RECURSIVE zeroPtrs(_, _, _, _)
zeroPtrs(h, dst, src, j) ==
  IF ~(j < dst.size.PointerCount) THEN h
  ELSE zeroPtrs(Logged(writeRawPointer(h, dst.seg, slotAddress(dst, j), ZeroVal(8)),
                       Event("zeroPtr", 0, dst.seg, slotAddress(dst, j).lo)),
                dst, src, j + 1)

\* copyStruct without the second pointer loop
copyStruct_noZeroPtrs(cc, h, dst, src) ==
  IF dst.seg = NilSeg THEN h
  ELSE copyPtrs(cc, copyData(Logged(h, Event("copyStruct", cc.depth, dst.seg, dst.off)),
                             dst, src),
                dst, src, 0)

copyStruct(cc, h, dst, src) ==
  IF dst.seg = NilSeg THEN h
  ELSE The({IF x.err # "nil" THEN x ELSE zeroPtrs(x, dst, src, src.size.PointerCount) :
              x \in {copyPtrs(cc, copyData(Logged(h, Event("copyStruct", cc.depth, dst.seg,
                                                           dst.off)),
                                           dst, src),
                              dst, src, 0)}})

\* copyPointer: deep copy of src into a new struct dst of the message of
\* segment s, then the pointer to dst written at addr
newCopy(h, s, src) == Struct(s, Len(h.mem[s]), src.size.DataSize, src.size.PointerCount)
copyPointer(cc, h, s, addr, src) ==
  IF cc.depth >= DepthLimit THEN Raise(h, "errCopyDepth", cc.depth, s, addr.lo)
  ELSE IF ~hasRoom(h, s, totalSize(src.size)) THEN Raise(h, "errAlloc", cc.depth, s, addr.lo)
  ELSE The({IF x.err # "nil" THEN x
            ELSE writeRawPointer(x, s, addr, value(newCopy(h, s, src), addr.lo)) :
              x \in {copyStruct(cc, alloc(h, s, totalSize(src.size)), newCopy(h, s, src),
                                src)}})

\* Segment.writePtr
writePtr(cc, h, s, addr, src) ==
  IF src.seg = NilSeg
  THEN writeRawPointer(Logged(h, Event("writePtr", cc.depth, s, addr.lo)), s, addr, ZeroVal(8))
  ELSE IF src.seg # s
  THEN copyPointer(cc, Logged(h, Event("writePtr", cc.depth, s, addr.lo)), s, addr, src)
  ELSE writeRawPointer(Logged(h, Event("writePtr", cc.depth, s, addr.lo)), s, addr,
                       value(src, addr.lo))

\* Struct.Pointer with the slot bound off by one
Pointer_offByOne(m, p, i) ==
  IF p.seg = NilSeg \/ i > p.size.PointerCount
  THEN [ptr |-> NullStruct, err |-> "nil"]
  ELSE readPtr(m, p.seg, pointerAddress(p, i))

\* Struct.Pointer
Pointer(m, p, i) ==
  IF p.seg = NilSeg \/ i >= p.size.PointerCount
  THEN [ptr |-> NullStruct, err |-> "nil"]
  ELSE readPtr(m, p.seg, pointerAddress(p, i))

\* Struct.SetPointer
SetPointer(h, p, i, src) ==
  IF p.seg = NilSeg \/ i >= p.size.PointerCount
  THEN Failed(h, "panic:errOutOfBounds")
  ELSE writePtr([depth |-> 0], h, p.seg, pointerAddress(p, i), src)

-----------------------------------------------------------------------------
(* Messages the operations run on.                                         *)
(* Segment SrcSeg is a received message: a root pointer word, then a chain *)
(* of structs, each holding a pointer to the next in slot 0 (and, when it  *)
(* has a second slot, a pointer to a leaf struct in slot 1), then the leaf.*)
(* Segment DstSeg is the message being built: a root pointer word, D1 with *)
(* 16 data bytes and 2 pointer slots at address 8, D2 with 8 data bytes    *)
(* and 1 pointer slot at address 40.                                       *)

SrcSeg == 1
DstSeg == 2
D1 == Struct(DstSeg, 8, 16, 2)
D2 == Struct(DstSeg, 40, 8, 1)
DstLen == D2.off + totalSize(D2.size)

\* the 8 bytes of a raw pointer, as stored
RawBytes(raw) == [k \in 1..8 |-> ByteOf(raw, k - 1)]
DataByte(a) == (a * 37 + 11) % 256
BadWord == <<7, 0, 0, 0, 0, 0, 0, 0>>     \* an "other" pointer with a non-zero body

\* element e (0-based) of the source chain: the struct and its bytes
ChainSize(wide) == IF wide THEN ObjectSize(16, 2) ELSE ObjectSize(8, 1)
ChainAt(e, wide) ==
  LET sz == ChainSize(wide)
  IN  Struct(SrcSeg, wordSize + e * totalSize(sz), sz.DataSize, sz.PointerCount)

\* the leaf every wide element points to from slot 1: 8 data bytes, no pointers
Leaf(K, wide) == Struct(SrcSeg, wordSize + K * totalSize(ChainSize(wide)), 8, 0)

\* tail: what slot 0 of the last element holds ("null", "cycle", "bad")
ChainBytes(e, K, wide, tail) ==
  LET st == ChainAt(e, wide)
      p0 == st.off + st.size.DataSize
      slot0 == IF e + 1 < K THEN RawBytes(value(ChainAt(e + 1, wide), p0))
               ELSE IF tail = "cycle" THEN RawBytes(value(ChainAt(0, wide), p0))
               ELSE IF tail = "bad" THEN BadWord
               ELSE RawBytes(ZeroVal(8))
      slot1 == RawBytes(value(Leaf(K, wide), p0 + wordSize))
  IN  [k \in 1..totalSize(st.size) |->
         IF k <= st.size.DataSize THEN DataByte(st.off + k - 1)
         ELSE IF k <= st.size.DataSize + wordSize THEN slot0[k - st.size.DataSize]
         ELSE slot1[k - st.size.DataSize - wordSize]]

RECURSIVE ChainFrom(_, _, _, _)
ChainFrom(e, K, wide, tail) ==
  IF e >= K THEN <<>>
  ELSE ChainBytes(e, K, wide, tail) \o ChainFrom(e + 1, K, wide, tail)

SrcMem(K, wide, tail) ==
  RawBytes(value(ChainAt(0, wide), 0)) \o ChainFrom(0, K, wide, tail)
    \o [k \in 1..8 |-> DataByte(Leaf(K, wide).off + k - 1)]

\* The destination message, freshly allocated (all fields zero) or in use
\* (data written, D1's slots pointing to D2, D2's slot malformed).
DstMem(dirty) ==
  LET root == RawBytes(value(D1, 0))
      toD2a == RawBytes(value(D2, 24))
      toD2b == RawBytes(value(D2, 32))
  IN  [i \in 1..DstLen |->
         LET a == i - 1
         IN  IF a < 8 THEN root[i]
             ELSE IF ~dirty THEN 0
             ELSE IF a < 24 THEN DataByte(a)
             ELSE IF a < 32 THEN toD2a[i - 24]
             ELSE IF a < 40 THEN toD2b[i - 32]
             ELSE IF a < 48 THEN DataByte(a)
             ELSE BadWord[i - 48]]

NoOp == [op |-> "none"]

InitWith(K, wide, tail, dirty, room) ==
  /\ mem = (SrcSeg :> SrcMem(K, wide, tail)) @@ (DstSeg :> DstMem(dirty))
  /\ cap = (SrcSeg :> Len(SrcMem(K, wide, tail))) @@ (DstSeg :> DstLen + room)
  /\ last = NoOp
  /\ nops = 0
  /\ scn = [K |-> K, wide |-> wide, tail |-> tail, dirty |-> dirty, room |-> room]
  /\ pc = <<"idle", "idle">>
  /\ loc = <<0, 0>>

-----------------------------------------------------------------------------
(* Operations on the struct views of the message being built *)

Ready == nops < MaxOps
Structs == {NullStruct, D1, D2}
Top(k) == [hi |-> Limb - 1, lo |-> Limb - k]      \* the uint32 2^32 - k
Offsets == {U(n) : n \in {0, 1, 7, 8, 9, 12, 15, 16}} \cup {Top(k) : k \in {1, 2, 4, 8}}
BitOffsets == {U(n) : n \in {0, 3, 7, 8, 63, 64, 127, 128}} \cup {Top(1)}
Slots == 0..2
Vals(w) ==
  CASE w = 1 -> {<<0>>, <<165>>}
    [] w = 2 -> {<<0>>, <<258>>}
    [] w = 4 -> {<<0, 0>>, <<258, 772>>}
    [] w = 8 -> {<<0, 0, 0, 0>>, <<258, 772, 1286, 1800>>}

Step(m, l) ==
  /\ mem' = m
  /\ last' = l
  /\ nops' = nops + 1
  /\ UNCHANGED <<cap, scn, pc, loc>>

SetRec(w, p, off, v, r) ==
  [op |-> "SetUint", w |-> w, p |-> p, off |-> off, v |-> v,
   out |-> r.out, err |-> r.err, pre |-> mem]
GetRec(w, p, off, r) ==
  [op |-> "Uint", w |-> w, p |-> p, off |-> off,
   out |-> r.out, val |-> r.val, touched |-> r.touched, pre |-> mem]

SetUint8Act ==
  /\ Ready
  /\ \E p \in Structs, off \in Offsets, v \in Vals(1) :
       LET r == SetUint8(mem, p, off, v) IN Step(r.mem, SetRec(1, p, off, v, r))
SetUint16Act ==
  /\ Ready
  /\ \E p \in Structs, off \in Offsets, v \in Vals(2) :
       LET r == SetUint16(mem, p, off, v) IN Step(r.mem, SetRec(2, p, off, v, r))
SetUint32Act ==
  /\ Ready
  /\ \E p \in Structs, off \in Offsets, v \in Vals(4) :
       LET r == SetUint32(mem, p, off, v) IN Step(r.mem, SetRec(4, p, off, v, r))
SetUint64Act ==
  /\ Ready
  /\ \E p \in Structs, off \in Offsets, v \in Vals(8) :
       LET r == SetUint64(mem, p, off, v) IN Step(r.mem, SetRec(8, p, off, v, r))

Uint8Act ==
  /\ Ready
  /\ \E p \in Structs, off \in Offsets :
       Step(mem, GetRec(1, p, off, Uint8(mem, p, off)))
Uint16Act ==
  /\ Ready
  /\ \E p \in Structs, off \in Offsets :
       Step(mem, GetRec(2, p, off, Uint16(mem, p, off)))
Uint32Act ==
  /\ Ready
  /\ \E p \in Structs, off \in Offsets :
       Step(mem, GetRec(4, p, off, Uint32(mem, p, off)))
Uint64Act ==
  /\ Ready
  /\ \E p \in Structs, off \in Offsets :
       Step(mem, GetRec(8, p, off, Uint64(mem, p, off)))

BitAct ==
  /\ Ready
  /\ \E p \in Structs, n \in BitOffsets :
       LET r == Bit(mem, p, n)
       IN  Step(mem, [op |-> "Bit", p |-> p, n |-> n, out |-> r.out, val |-> r.val,
                      touched |-> r.touched, pre |-> mem])
SetBitAct ==
  /\ Ready
  /\ \E p \in Structs, n \in BitOffsets, v \in BOOLEAN :
       LET r == SetBit(mem, p, n, v)
       IN  Step(r.mem, [op |-> "SetBit", p |-> p, n |-> n, v |-> v, out |-> r.out,
                        err |-> r.err, pre |-> mem])

PointerAct ==
  /\ Ready
  /\ \E p \in Structs, i \in Slots :
       LET r == Pointer(mem, p, i)
       IN  Step(mem, [op |-> "Pointer", p |-> p, i |-> i, ptr |-> r.ptr, err |-> r.err,
                      pre |-> mem])

PtrRec(p, i, src, h) ==
  [op |-> "SetPointer", p |-> p, i |-> i, src |-> src, err |-> h.err, log |-> h.log,
   pre |-> mem]

SetPointerAct ==
  /\ Ready
  /\ \E p \in Structs, i \in Slots, src \in {NullStruct, D2, ChainAt(0, scn.wide)} :
       LET h == SetPointer(Heap(mem, cap), p, i, src)
       IN  Step(h.mem, PtrRec(p, i, src, h))

Init == \E dirty \in BOOLEAN, room \in {0, 64} : InitWith(2, FALSE, "null", dirty, room)

Next ==
  \/ SetUint8Act \/ SetUint16Act \/ SetUint32Act \/ SetUint64Act
  \/ Uint8Act \/ Uint16Act \/ Uint32Act \/ Uint64Act
  \/ BitAct \/ SetBitAct \/ PointerAct \/ SetPointerAct

Spec == Init /\ [][Next]_vars

-----------------------------------------------------------------------------
(* The deep copy, called on a destination view of the message being built  *)
(* and a valid source view of the received message (copyPointer, its only  *)
(* caller, passes a valid source).                                         *)

Sources == {ChainAt(e, scn.wide) : e \in 0..(scn.K - 1)} \cup {Leaf(scn.K, scn.wide)}

CopyStructAct ==
  /\ Ready
  /\ \E dst \in Structs, src \in Sources, d \in {0, 2} :
       LET h == copyStruct([depth |-> d], Heap(mem, cap), dst, src)
       IN  Step(h.mem, [op |-> "copyStruct", dst |-> dst, src |-> src, depth |-> d,
                        err |-> h.err, log |-> h.log, pre |-> mem])

Tails == {"null", "cycle", "bad"}
\* the destination message: in use with ample room, in use and nearly full,
\* or fresh and nearly full
Dests == {<<TRUE, 128>>, <<TRUE, 16>>, <<FALSE, 16>>}

InitCopy ==
  \E K \in 1..MaxChain, wide \in BOOLEAN, tail \in Tails, d \in Dests :
    InitWith(K, wide, tail, d[1], d[2])

NextCopy == CopyStructAct \/ SetPointerAct

SpecCopy == InitCopy /\ [][NextCopy]_vars

-----------------------------------------------------------------------------
(* Properties of the accessors *)

GetW(w, m, p, off) ==
  CASE w = 1 -> Uint8(m, p, off)
    [] w = 2 -> Uint16(m, p, off)
    [] w = 4 -> Uint32(m, p, off)
    [] w = 8 -> Uint64(m, p, off)

\* offset + w <= DataSize in exact integer arithmetic, on a backed struct
InRange(p, off, w) == p.seg # NilSeg /\ off.hi = 0 /\ off.lo + w <= p.size.DataSize
BitInRange(p, n) == p.seg # NilSeg /\ n.hi = 0 /\ n.lo < p.size.DataSize * 8
SlotInRange(p, i) == p.seg # NilSeg /\ i < p.size.PointerCount
DataSection(p) == p.off .. (p.off + p.size.DataSize - 1)
Segs == {SrcSeg, DstSeg}

\* C1: on a backed struct, for every width w and every offset with
\* offset + w/8 <= DataSize, set_w(offset, v) followed by get_w(offset)
\* returns v.
C1_RoundTrip ==
  (last.op = "SetUint" /\ InRange(last.p, last.off, last.w)) =>
     /\ last.out = "ok"
     /\ GetW(last.w, mem, last.p, last.off).out = "ok"
     /\ GetW(last.w, mem, last.p, last.off).val = last.v

C1_Witness ==
  /\ last.op = "SetUint" /\ InRange(last.p, last.off, last.w)
  /\ last.w = 2 /\ last.v = <<258>> /\ last.off = U(9) /\ last.p = D1
  /\ mem # last.pre

\* C2: for every 32-bit offset, a get_w on an unbacked struct or with
\* offset + w/8 > DataSize (exact arithmetic) returns 0, does not abort and
\* reads no byte outside the struct's data section.
C2_ReadTotal ==
  (last.op = "Uint" /\ ~InRange(last.p, last.off, last.w)) =>
     /\ last.out = "ok"
     /\ last.val = ZeroVal(last.w)
     /\ last.touched \subseteq DataSection(last.p)

\* C3: a write the struct's declared size cannot hold (set_w with
\* offset + w/8 > DataSize, setBit with n >= DataSize*8, setPointer with
\* i >= PointerCount, or any of them on an unbacked struct) panics with
\* errOutOfBounds and leaves every byte of every segment unchanged.
C3_WriteAborts ==
  /\ (last.op = "SetUint" /\ ~InRange(last.p, last.off, last.w)) =>
        (last.out = "panic" /\ last.err = "errOutOfBounds" /\ mem = last.pre)
  /\ (last.op = "SetBit" /\ ~BitInRange(last.p, last.n)) =>
        (last.out = "panic" /\ last.err = "errOutOfBounds" /\ mem = last.pre)
  /\ (last.op = "SetPointer" /\ ~SlotInRange(last.p, last.i)) =>
        (last.err = "panic:errOutOfBounds" /\ mem = last.pre)

\* bit k of the byte at address a of segment s
BitAt(m, s, a, k) == (m[s][a + 1] \div (2 ^ k)) % 2 = 1

\* C4: on a backed struct and for n < DataSize*8, setBit(n, v) makes
\* getBit(n) equal v and changes no other bit of any segment: not the other
\* seven bits of the byte, no other data byte, no pointer slot.
C4_BitIsolation ==
  (last.op = "SetBit" /\ BitInRange(last.p, last.n)) =>
     /\ last.out = "ok"
     /\ Bit(mem, last.p, last.n).val = last.v
     /\ \A s \in Segs :
          /\ Len(mem[s]) = Len(last.pre[s])
          /\ \A a \in 0..(Len(mem[s]) - 1), k \in 0..7 :
               (s # last.p.seg \/ a # last.p.off + (last.n.lo \div 8) \/ k # last.n.lo % 8)
                 => (BitAt(mem, s, a, k) <=> BitAt(last.pre, s, a, k))

C4_Witness ==
  /\ last.op = "SetBit" /\ BitInRange(last.p, last.n)
  /\ last.n = U(3) /\ last.p = D1 /\ last.v
  /\ ~BitAt(last.pre, DstSeg, 8, 3) /\ BitAt(mem, DstSeg, 8, 3)
  /\ BitAt(mem, DstSeg, 8, 0) /\ ~BitAt(mem, DstSeg, 8, 2) /\ BitAt(mem, DstSeg, 8, 4)

\* address of pointer slot i of p, in exact arithmetic
SlotAddr(p, i) == p.off + p.size.DataSize + i * 8

\* C5 as stated: getPointer never reports a failure; it returns null when
\* index >= PointerCount or the struct is unbacked, otherwise the decoded
\* content of the slot.
C5_PointerTotal ==
  last.op = "Pointer" =>
     /\ last.err = "nil"
     /\ ~SlotInRange(last.p, last.i) => last.ptr = NullStruct
     /\ SlotInRange(last.p, last.i) =>
          last.ptr = readPtr(last.pre, last.p.seg, U(SlotAddr(last.p, last.i))).ptr

\* C5 amended: getPointer never aborts; it returns null and no error when
\* index >= PointerCount or the struct is unbacked, and otherwise exactly
\* what decoding the slot's word returns: the pointer, or the decoding error.
C5_PointerDecodes ==
  last.op = "Pointer" =>
     /\ last.err # "panic"
     /\ ~SlotInRange(last.p, last.i) => (last.ptr = NullStruct /\ last.err = "nil")
     /\ SlotInRange(last.p, last.i) =>
          [ptr |-> last.ptr, err |-> last.err]
             = readPtr(last.pre, last.p.seg, U(SlotAddr(last.p, last.i)))

C5_Witness ==
  /\ last.op = "Pointer" /\ last.p = D2 /\ last.i = 0
  /\ last.err = "errOtherPointer"

-----------------------------------------------------------------------------
(* Properties of the deep copy *)

Min(a, b) == IF a < b THEN a ELSE b
SlotBytes(m, p, i) == [k \in 1..8 |-> m[p.seg][SlotAddr(p, i) + k]]
Decode(m, p, i) == readPtr(m, p.seg, U(SlotAddr(p, i)))

\* a and b are both null, or structs of the same size with equal data
\* bytes whose pointer slots decode to values of the same content
RECURSIVE SameContent(_, _, _, _, _)
SameContent(mA, a, mB, b, fuel) ==
  IF a.seg = NilSeg \/ b.seg = NilSeg THEN a.seg = NilSeg /\ b.seg = NilSeg
  ELSE /\ fuel > 0
       /\ a.size = b.size
       /\ \A k \in 1..a.size.DataSize : mA[a.seg][a.off + k] = mB[b.seg][b.off + k]
       /\ \A i \in 0..(a.size.PointerCount - 1) :
            LET ra == Decode(mA, a, i)
                rb == Decode(mB, b, i)
            IN  /\ ra.err = "nil" /\ rb.err = "nil"
                /\ SameContent(mA, ra.ptr, mB, rb.ptr, fuel - 1)

\* slot j of dst holds an independent copy of what slot j of src held
HoldsCopy(j) ==
  LET rd == Decode(mem, last.dst, j)
      rs == Decode(last.pre, last.src, j)
  IN  /\ rd.err = "nil" /\ rs.err = "nil"
      /\ SameContent(mem, rd.ptr, last.pre, rs.ptr, DepthLimit + 1)
      /\ rs.ptr.seg # NilSeg =>
           (rd.ptr.seg = last.dst.seg /\ rd.ptr.off >= Len(last.pre[last.dst.seg]))

DataCopied ==
  \A k \in 0..(last.dst.size.DataSize - 1) :
     mem[last.dst.seg][last.dst.off + k + 1] =
        IF k < Min(last.src.size.DataSize, last.dst.size.DataSize)
        THEN last.pre[last.src.seg][last.src.off + k + 1] ELSE 0

\* C6: after copy into a backed dst, dst data bytes [0, min(srcDataSize,
\* dstDataSize)) equal the src data bytes, the bytes [min, dstDataSize) are
\* zero whatever they held, and nothing of src beyond dstDataSize is in
\* dst's data section.
C6_DataSection ==
  (last.op = "copyStruct" /\ last.dst.seg # NilSeg) => DataCopied

C6_Witness ==
  /\ last.op = "copyStruct" /\ last.dst = D1 /\ last.src.size.DataSize = 8
  /\ last.pre[DstSeg][8 + 12 + 1] # 0 /\ mem[DstSeg][8 + 12 + 1] = 0
  /\ last.pre[DstSeg][8 + 1] # mem[DstSeg][8 + 1]

\* C7: after a copy that returns without error, with n = min(srcPointerCount,
\* dstPointerCount): every dst slot j < n holds a copy of src slot j, every
\* dst slot in [n, dstPointerCount) is null whatever it held, and no src
\* slot with index >= n was read.
C7_PointerSection ==
  (last.op = "copyStruct" /\ last.err = "nil" /\ last.dst.seg # NilSeg) =>
     LET n == Min(last.src.size.PointerCount, last.dst.size.PointerCount)
     IN  /\ \A j \in 0..(last.dst.size.PointerCount - 1) :
              IF j < n THEN HoldsCopy(j)
              ELSE SlotBytes(mem, last.dst, j) = [k \in 1..8 |-> 0]
         /\ \A k \in 1..Len(last.log) :
              (last.log[k].ev = "readPtr" /\ last.log[k].seg = last.src.seg) =>
                 last.log[k].addr \notin
                    {SlotAddr(last.src, j) : j \in n..(last.src.size.PointerCount - 1)}

C7_Witness ==
  /\ last.op = "copyStruct" /\ last.err = "nil" /\ last.dst = D1
  /\ last.src.size.PointerCount = 1
  /\ Decode(last.pre, last.src, 0).ptr.seg # NilSeg
  /\ Decode(mem, D1, 0).ptr.off >= DstLen
  /\ SlotBytes(last.pre, D1, 1) # [k \in 1..8 |-> 0]
  /\ SlotBytes(mem, D1, 1) = [k \in 1..8 |-> 0]

\* the deepest nesting of structs below the head of the source chain
Nesting == scn.K + (IF scn.wide THEN 1 ELSE 0)
FreeBefore == cap[DstSeg] - Len(last.pre[DstSeg])
\* room for DepthLimit copies of the widest chain element
CopyRoom == DepthLimit * totalSize(ChainSize(TRUE))

\* every descent is logged as a readPtr at the depth the copy received,
\* followed by the writePtr it makes; a nested copyStruct runs at the depth
\* of the writePtr that made it
DescentsByOne(log) ==
  \A k \in 1..Len(log) :
     /\ (log[k].ev = "readPtr" /\ k < Len(log) /\ log[k + 1].ev = "writePtr") =>
           log[k + 1].depth = log[k].depth + 1
     /\ (log[k].ev = "copyStruct" /\ k > 1) =>
           (log[k - 1].ev = "writePtr" /\ log[k - 1].depth = log[k].depth)

\* C8: every descent of copy into a sub-pointer passes a depth one more than
\* the depth copy received and setPointer starts at depth 0; copying a chain
\* nested deeper than the limit ends with the nesting-depth error, and a
\* chain within the limit ends without it.
C8_DepthBound ==
  /\ last.op \in {"SetPointer", "copyStruct"} => DescentsByOne(last.log)
  /\ (last.op = "SetPointer" /\ SlotInRange(last.p, last.i)) =>
        last.log[1] = Event("writePtr", 0, last.p.seg, SlotAddr(last.p, last.i))
  /\ (last.op = "SetPointer" /\ SlotInRange(last.p, last.i)
        /\ last.src = ChainAt(0, scn.wide)) =>
        /\ (scn.tail # "cycle" /\ Nesting <= DepthLimit) => last.err # "errCopyDepth"
        /\ (scn.tail = "null" /\ Nesting <= DepthLimit /\ FreeBefore >= CopyRoom) =>
              last.err = "nil"
        /\ (scn.tail = "null" /\ Nesting > DepthLimit /\ FreeBefore >= CopyRoom) =>
              last.err = "errCopyDepth"

C8_Witness ==
  /\ last.op = "SetPointer" /\ SlotInRange(last.p, last.i)
  /\ last.src = ChainAt(0, scn.wide) /\ scn.tail = "null" /\ ~scn.wide
  /\ scn.K = DepthLimit + 1 /\ FreeBefore >= CopyRoom
  /\ last.err = "errCopyDepth"
  /\ Cardinality({k \in 1..Len(last.log) : last.log[k].ev = "copyStruct"}) = DepthLimit

C8_WitnessWithin ==
  /\ last.op = "SetPointer" /\ SlotInRange(last.p, last.i)
  /\ last.src = ChainAt(0, scn.wide) /\ scn.tail = "null"
  /\ scn.K = DepthLimit /\ last.err = "nil"

FailEvents == {"errCopyDepth", "errAlloc", "errOtherPointer", "errPointerAddress"}

\* the top-level slots of src that the copy read
TopReads ==
  {k \in 1..Len(last.log) :
     /\ last.log[k].ev = "readPtr" /\ last.log[k].depth = last.depth
     /\ last.log[k].seg = last.src.seg
     /\ \E j \in 0..(last.src.size.PointerCount - 1) :
          last.log[k].addr = SlotAddr(last.src, j)}

\* C9: when decoding src slot j or writing dst slot j fails, copy returns
\* that error at once: nothing is read or written after the failure, no
\* slot above j is touched, and the data section and the slots below j keep
\* what the copy wrote.
C9_FailFast ==
  (last.op = "copyStruct" /\ last.err # "nil") =>
     LET j == Cardinality(TopReads) - 1
         n == Len(last.log)
     IN  /\ j >= 0
         /\ last.log[n].ev = last.err
         /\ \A k \in 1..(n - 1) : last.log[k].ev \notin FailEvents
         /\ {last.log[k].addr : k \in TopReads} = {SlotAddr(last.src, i) : i \in 0..j}
         /\ Decode(last.pre, last.src, j).err # "nil" =>
               last.err = Decode(last.pre, last.src, j).err
         /\ \A i \in (j + 1)..(last.dst.size.PointerCount - 1) :
               SlotBytes(mem, last.dst, i) = SlotBytes(last.pre, last.dst, i)
         /\ DataCopied
         /\ \A i \in 0..(j - 1) : HoldsCopy(i)

\* a failure at slot 1 after slot 0 was written
C9_Witness ==
  /\ last.op = "copyStruct" /\ last.err = "errCopyDepth" /\ last.dst = D1
  /\ last.src.size.PointerCount = 2
  /\ Cardinality(TopReads) = 2
  /\ SlotBytes(last.pre, D1, 0) # SlotBytes(mem, D1, 0)
  /\ SlotBytes(mem, D1, 1) # [k \in 1..8 |-> 0]
  /\ mem[DstSeg][8 + 1] # last.pre[DstSeg][8 + 1]

\* a failure at slot 0 with slot 1 left alone
C9_WitnessFirst ==
  /\ last.op = "copyStruct" /\ last.err = "errOtherPointer" /\ last.dst = D1
  /\ last.src.size.PointerCount = 2
  /\ Cardinality(TopReads) = 1

-----------------------------------------------------------------------------
(* Two unsynchronised writers, each calling SetBit once on D1.  SetBit is  *)
(* a byte read, a modification of the byte read, and a byte write; the two *)
(* accesses of a writer are separate steps.                                *)

Writers == {1, 2}
RaceBits == {0, 3, 7, 8, 12}

InitRace ==
  \E dirty \in BOOLEAN, n1 \in RaceBits, n2 \in RaceBits, v1 \in BOOLEAN, v2 \in BOOLEAN :
    /\ n1 # n2
    /\ mem = (SrcSeg :> SrcMem(1, FALSE, "null")) @@ (DstSeg :> DstMem(dirty))
    /\ cap = (SrcSeg :> Len(SrcMem(1, FALSE, "null"))) @@ (DstSeg :> DstLen)
    /\ last = [op |-> "race", n |-> <<U(n1), U(n2)>>, v |-> <<v1, v2>>,
               overlap |-> FALSE, pre |-> mem]
    /\ nops = 0
    /\ scn = [K |-> 1, wide |-> FALSE, tail |-> "null", dirty |-> dirty, room |-> 0]
    /\ pc = <<"idle", "idle">>
    /\ loc = <<0, 0>>

\* b := p.seg.readUint8(addr)
SetBitRead(w) ==
  /\ pc[w] = "idle"
  /\ bitInData(D1, last.n[w])
  /\ loc' = [loc EXCEPT ![w] =
               readUint8(mem[D1.seg], addOffset(U(D1.off), bitOffset(last.n[w]))).val[1]]
  /\ pc' = [pc EXCEPT ![w] = "read"]
  /\ last' = [last EXCEPT !.overlap = @ \/ (\E o \in Writers : o # w /\ pc[o] = "read")]
  /\ UNCHANGED <<mem, cap, nops, scn>>

\* modify b; p.seg.writeUint8(addr, b)
SetBitWrite(w) ==
  /\ pc[w] = "read"
  /\ mem' = WrSeg(mem, D1.seg,
                  writeUint8(mem[D1.seg], addOffset(U(D1.off), bitOffset(last.n[w])),
                             <<setBitByte(loc[w], last.n[w], last.v[w])>>)).mem
  /\ pc' = [pc EXCEPT ![w] = "done"]
  /\ UNCHANGED <<cap, last, nops, scn, loc>>

NextRace == \E w \in Writers : SetBitRead(w) \/ SetBitWrite(w)

SpecRace == InitRace /\ [][NextRace]_vars

AllDone == \A w \in Writers : pc[w] = "done"
SameByte == last.n[1].lo \div 8 = last.n[2].lo \div 8
Holds(w) == Bit(mem, D1, last.n[w]).val = last.v[w]

\* C10: setBit is a read-byte / modify / write-byte sequence.  When the two
\* calls do not overlap, both bits end up holding their written values (and
\* so do bits of different bytes, however the calls interleave); when they
\* overlap on one byte an update can be lost (C10_LostUpdate is reachable).
C10_SerialKeepsBoth ==
  (last.op = "race" /\ AllDone /\ (~last.overlap \/ ~SameByte)) =>
     (Holds(1) /\ Holds(2))

C10_LostUpdate ==
  /\ last.op = "race" /\ AllDone /\ last.overlap /\ SameByte
  /\ ~(Holds(1) /\ Holds(2))
  /\ Holds(1) \/ Holds(2)

====
